---- MODULE Spec2Model ----
(***************************************************************************)
(* Model of src/components/JanAushadhiLocator.tsx: the response sanitizer  *)
(* (sanitizeString), the prescription pipeline (analyzePrescription), the  *)
(* store locator service (findNearestStore) and the locator component      *)
(* (JanAushadhiLocator / handleLocate).                                    *)
(*                                                                         *)
(* A JavaScript string is a sequence of one-character strings.  A JSON     *)
(* value is a record with a type tag t (the result of the JS type tests    *)
(* the code makes) and one payload field per type.                         *)
(***************************************************************************)
EXTENDS Integers, Sequences, FiniteSets, TLC

VARIABLES
    \* sanitizeString applied to one value, then to its own result
    sPc, sVal, sOut, sOut2,
    \* one call of analyzePrescription
    aPc, aSrc, aText, aParsed, aOutcome, aResult,
    \* the JanAushadhiLocator component and the findNearestStore calls it makes
    mounted, loading, store, error, permissionDenied, geoPending, aiPending,
    lastAttempt

sanVars == <<sPc, sVal, sOut, sOut2>>
anaVars == <<aPc, aSrc, aText, aParsed, aOutcome, aResult>>
locVars == <<mounted, loading, store, error, permissionDenied, geoPending,
             aiPending, lastAttempt>>
vars == <<sanVars, anaVars, locVars>>

---------------------------------------------------------------------------
(* Bounds of the enumerated inputs.                                        *)

\* longest array / medication list / grounding-chunk list that is enumerated
MaxLen == 2

---------------------------------------------------------------------------
(* JavaScript strings.                                                     *)

\* the characters String.prototype.trim and JSON.parse treat as white space
WhiteSpace == {" ", "\n", "\t", "\r"}

Digits == <<"0", "1", "2", "3", "4", "5", "6", "7", "8", "9">>

UpperCase == <<"A", "B", "C", "D", "E", "F", "G", "H", "I", "J", "K", "L", "M",
               "N", "O", "P", "Q", "R", "S", "T", "U", "V", "W", "X", "Y", "Z">>

LowerCase == <<"a", "b", "c", "d", "e", "f", "g", "h", "i", "j", "k", "l", "m",
               "n", "o", "p", "q", "r", "s", "t", "u", "v", "w", "x", "y", "z">>

\* s.startsWith(p)
StartsWith(s, p) == Len(s) >= Len(p) /\ SubSeq(s, 1, Len(p)) = p

\* whether p occurs in s at index i
MatchAt(s, p, i) == i + Len(p) - 1 <= Len(s) /\ SubSeq(s, i, i + Len(p) - 1) = p

\* s.includes(p)
Includes(s, p) == \E i \in 1..(Len(s) + 1) : MatchAt(s, p, i)

\* s.trim()
Trim(s) ==
    LET keep == {i \in 1..Len(s) : s[i] \notin WhiteSpace}
    IN  IF keep = {} THEN <<>>
        ELSE SubSeq(s, CHOOSE i \in keep : \A j \in keep : i <= j,
                       CHOOSE i \in keep : \A j \in keep : j <= i)

\* s.toLowerCase(), character by character
LowerChar(c) ==
    IF \E k \in 1..Len(UpperCase) : UpperCase[k] = c
    THEN LowerCase[CHOOSE k \in 1..Len(UpperCase) : UpperCase[k] = c]
    ELSE c

toLowerCase(s) == [i \in 1..Len(s) |-> LowerChar(s[i])]

\* s.replace(/p/g, ''): every match of p, found left to right in s, removed;
\* the search for the next match resumes after the end of the last one
RECURSIVE RemoveFrom(_, _, _)
RemoveFrom(s, p, i) ==
    LET hits == {j \in i..Len(s) : MatchAt(s, p, j)}
    IN  IF hits = {} THEN SubSeq(s, i, Len(s))
        ELSE LET j == CHOOSE h \in hits : \A g \in hits : h <= g
             IN  SubSeq(s, i, j - 1) \o RemoveFrom(s, p, j + Len(p))

RemoveAll(s, p) == RemoveFrom(s, p, 1)

\* String(n) of an integer
RECURSIVE NatToString(_)
NatToString(n) ==
    IF n < 10 THEN <<Digits[n + 1]>>
    ELSE NatToString(n \div 10) \o <<Digits[(n % 10) + 1]>>

NumberToString(n) == IF n < 0 THEN <<"-">> \o NatToString(-n) ELSE NatToString(n)

\* parts.join(sep)
RECURSIVE Join(_, _)
Join(parts, sep) ==
    IF parts = <<>> THEN <<>>
    ELSE IF Len(parts) = 1 THEN parts[1]
    ELSE parts[1] \o sep \o Join(Tail(parts), sep)

---------------------------------------------------------------------------
(* JSON values, as JSON.parse builds them and as the code tests them.      *)

JV(t, b, n, s, keys, kids) ==
    [t |-> t, b |-> b, n |-> n, s |-> s, keys |-> keys, kids |-> kids]

JUndefined == JV("undefined", FALSE, 0, <<>>, <<>>, <<>>)
JNull      == JV("null", FALSE, 0, <<>>, <<>>, <<>>)
JBool(b)   == JV("boolean", b, 0, <<>>, <<>>, <<>>)
JNum(n)    == JV("number", FALSE, n, <<>>, <<>>, <<>>)
JStr(s)    == JV("string", FALSE, 0, s, <<>>, <<>>)
JArr(kids) == JV("array", FALSE, 0, <<>>, <<>>, kids)
\* an object: its own keys in insertion order and, index by index, their values
JObj(keys, kids) == JV("object", FALSE, 0, <<>>, keys, kids)

\* Object.keys(v).length === 0 etc.
HasKey(v, k) == v.t = "object" /\ \E i \in 1..Len(v.keys) : v.keys[i] = k

\* v[k] for a key that no prototype defines: the own property, else undefined.
\* (On null and undefined the access throws; the callers test that first.)
Prop(v, k) ==
    IF HasKey(v, k)
    THEN v.kids[CHOOSE i \in 1..Len(v.keys) : v.keys[i] = k]
    ELSE JUndefined

\* the truthiness test of if (x), !x and x || y
Truthy(v) ==
    CASE v.t = "undefined" -> FALSE
      [] v.t = "null"      -> FALSE
      [] v.t = "boolean"   -> v.b
      [] v.t = "number"    -> v.n # 0
      [] v.t = "string"    -> v.s # <<>>
      [] OTHER             -> TRUE

\* x || y
OrElse(x, y) == IF Truthy(x) THEN x ELSE y

\* a property write o[k] = x on an object: replaces the value of an existing
\* key in place, appends a new key
SetProp(o, k, x) ==
    IF HasKey(o, k)
    THEN [o EXCEPT !.kids[CHOOSE i \in 1..Len(o.keys) : o.keys[i] = k] = x]
    ELSE [o EXCEPT !.keys = Append(o.keys, k), !.kids = Append(o.kids, x)]

---------------------------------------------------------------------------
(* JSON.parse: a recursive-descent reader of the JSON grammar.  Numbers    *)
(* are read as integers (no fraction or exponent part occurs in the        *)
(* enumerated texts); the string escapes read are \" \\ \/ \n \t \r.       *)

ParseFail == [ok |-> FALSE, v |-> JUndefined, i |-> 0]
ParseOk(v, i) == [ok |-> TRUE, v |-> v, i |-> i]

\* index of the first character at or after i that is not white space
RECURSIVE SkipWs(_, _)
SkipWs(s, i) ==
    IF i <= Len(s) /\ s[i] \in WhiteSpace THEN SkipWs(s, i + 1) ELSE i

IsDigit(c) == \E k \in 1..Len(Digits) : Digits[k] = c
DigitVal(c) == (CHOOSE k \in 1..Len(Digits) : Digits[k] = c) - 1

\* the least element of a non-empty set of indices
Least(S) == CHOOSE i \in S : \A j \in S : i <= j

\* the number of consecutive backslashes that end just before index j, none
\* of them before index i
BackslashRun(s, i, j) ==
    j - Least({k \in i..j : \A q \in k..(j - 1) : s[q] = "\\"})

\* the quotes at or after index i that no backslash escapes
ClosingQuotes(s, i) ==
    {j \in i..Len(s) : s[j] = "\"" /\ BackslashRun(s, i, j) % 2 = 0}

\* in the body i..(close - 1) of a string literal: the characters an escaping
\* backslash precedes, and the characters that are no escaping backslash
Escaped(s, i, close) == {j \in i..(close - 1) : BackslashRun(s, i, j) % 2 = 1}
Kept(s, i, close) ==
    {j \in i..(close - 1) : ~(s[j] = "\\" /\ BackslashRun(s, i, j) % 2 = 0)}

\* the character an escape \c stands for
Unescape(c) ==
    CASE c = "n" -> "\n"
      [] c = "t" -> "\t"
      [] c = "r" -> "\r"
      [] OTHER   -> c

\* the character that index j of a string literal's body contributes
DecodeAt(s, i, j) == IF BackslashRun(s, i, j) % 2 = 1 THEN Unescape(s[j]) ELSE s[j]

\* the k-th least element of a set of indices
Nth(S, k) == CHOOSE j \in S : Cardinality({q \in S : q < j}) = k - 1

\* the characters of the indices kept, in order
Decode(s, i, kept) == [k \in 1..Cardinality(kept) |-> DecodeAt(s, i, Nth(kept, k))]

\* the string literal with body i..(close - 1); a raw control character or an
\* escape other than \" \\ \/ \n \t \r is a syntax error
ParseBody(s, i, close) ==
    IF \/ \E j \in i..(close - 1) : s[j] \in {"\n", "\t", "\r"}
       \/ \E j \in Escaped(s, i, close) : s[j] \notin {"\"", "\\", "/", "n", "t", "r"}
    THEN ParseFail
    ELSE ParseOk(JStr(Decode(s, i, Kept(s, i, close))), close + 1)

\* the string literal whose opening quote is just before index i: it ends at
\* the first quote that no backslash escapes
ParseChars(s, i) ==
    IF ClosingQuotes(s, i) = {} THEN ParseFail
    ELSE ParseBody(s, i, Least(ClosingQuotes(s, i)))

\* the digits of a number from index i on, n being the value read so far
RECURSIVE ParseDigits(_, _, _)
ParseDigits(s, i, n) ==
    IF i <= Len(s) /\ IsDigit(s[i])
    THEN ParseDigits(s, i + 1, 10 * n + DigitVal(s[i]))
    ELSE ParseOk(JNum(n), i)

\* 0|[1-9][0-9]* at index j
ParseUnsigned(s, j) ==
    IF j > Len(s) \/ ~IsDigit(s[j]) THEN ParseFail
    ELSE IF s[j] = "0" THEN ParseOk(JNum(0), j + 1)
    ELSE ParseDigits(s, j, 0)

Negated(r) == IF r.ok THEN ParseOk(JNum(-(r.v.n)), r.i) ELSE ParseFail

\* -?(0|[1-9][0-9]*) at index i
ParseNumber(s, i) ==
    IF s[i] = "-" THEN Negated(ParseUnsigned(s, i + 1)) ELSE ParseUnsigned(s, i)

RECURSIVE ParseValue(_, _), ParseElements(_, _, _), ParseMembers(_, _, _),
          AfterElement(_, _, _), AfterKey(_, _, _), AfterMember(_, _, _, _)

\* an object from the first index j after its "{" that is not white space
ParseObject(s, j) ==
    IF j <= Len(s) /\ s[j] = "}" THEN ParseOk(JObj(<<>>, <<>>), j + 1)
    ELSE ParseMembers(s, j, JObj(<<>>, <<>>))

\* an array from the first index j after its "[" that is not white space
ParseArray(s, j) ==
    IF j <= Len(s) /\ s[j] = "]" THEN ParseOk(JArr(<<>>), j + 1)
    ELSE ParseElements(s, j, <<>>)

\* the value that starts at index i (white space already skipped)
ParseValue(s, i) ==
    IF i > Len(s) THEN ParseFail
    ELSE IF s[i] = "{" THEN ParseObject(s, SkipWs(s, i + 1))
    ELSE IF s[i] = "[" THEN ParseArray(s, SkipWs(s, i + 1))
    ELSE IF s[i] = "\"" THEN ParseChars(s, i + 1)
    ELSE IF s[i] = "-" \/ IsDigit(s[i]) THEN ParseNumber(s, i)
    ELSE IF MatchAt(s, <<"t", "r", "u", "e">>, i) THEN ParseOk(JBool(TRUE), i + 4)
    ELSE IF MatchAt(s, <<"f", "a", "l", "s", "e">>, i) THEN ParseOk(JBool(FALSE), i + 5)
    ELSE IF MatchAt(s, <<"n", "u", "l", "l">>, i) THEN ParseOk(JNull, i + 4)
    ELSE ParseFail

\* the elements of an array from index i on, acc being those read so far
ParseElements(s, i, acc) == AfterElement(s, acc, ParseValue(s, i))

\* r is the element just read: "]" ends the array, "," brings the next element
AfterElement(s, acc, r) ==
    IF ~r.ok \/ SkipWs(s, r.i) > Len(s) THEN ParseFail
    ELSE IF s[SkipWs(s, r.i)] = "]"
        THEN ParseOk(JArr(Append(acc, r.v)), SkipWs(s, r.i) + 1)
    ELSE IF s[SkipWs(s, r.i)] = ","
        THEN ParseElements(s, SkipWs(s, SkipWs(s, r.i) + 1), Append(acc, r.v))
    ELSE ParseFail

\* the members of an object from index i on, o being the object built so far
ParseMembers(s, i, o) ==
    IF i > Len(s) \/ s[i] # "\"" THEN ParseFail
    ELSE AfterKey(s, o, ParseChars(s, i + 1))

\* k is the key just read: a ":" and the member's value follow
AfterKey(s, o, k) ==
    IF ~k.ok \/ SkipWs(s, k.i) > Len(s) \/ s[SkipWs(s, k.i)] # ":" THEN ParseFail
    ELSE AfterMember(s, o, k.v.s, ParseValue(s, SkipWs(s, SkipWs(s, k.i) + 1)))

\* r is the value just read for key: a repeated key keeps its first position
\* and takes the last value; "}" ends the object, "," brings the next member
AfterMember(s, o, key, r) ==
    IF ~r.ok \/ SkipWs(s, r.i) > Len(s) THEN ParseFail
    ELSE IF s[SkipWs(s, r.i)] = "}"
        THEN ParseOk(SetProp(o, key, r.v), SkipWs(s, r.i) + 1)
    ELSE IF s[SkipWs(s, r.i)] = ","
        THEN ParseMembers(s, SkipWs(s, SkipWs(s, r.i) + 1), SetProp(o, key, r.v))
    ELSE ParseFail

\* r read, nothing but white space may follow
WholeText(s, r) == IF r.ok /\ SkipWs(s, r.i) = Len(s) + 1 THEN r ELSE ParseFail

\* JSON.parse(s): ok is FALSE where JSON.parse throws SyntaxError
JSONparse(s) == WholeText(s, ParseValue(s, SkipWs(s, 1)))

---------------------------------------------------------------------------
(* sanitizeString.                                                         *)

\* the text of String({}), which must never reach the UI
ObjectObject == <<"[", "o", "b", "j", "e", "c", "t", " ", "O", "b", "j", "e", "c", "t", "]">>

\* priorityKeys with value tried before text
priorityKeysValueFirst == <<<<"v", "a", "l", "u", "e">>,
                            <<"t", "e", "x", "t">>,
                            <<"d", "i", "s", "p", "l", "a", "y", "V", "a", "l", "u", "e">>,
                            <<"b", "r", "a", "n", "d">>,
                            <<"n", "a", "m", "e">>,
                            <<"m", "e", "s", "s", "a", "g", "e">>>>

\* const priorityKeys = ['text', 'value', 'displayValue', 'brand', 'name', 'message']
priorityKeys == <<<<"t", "e", "x", "t">>,
                  <<"v", "a", "l", "u", "e">>,
                  <<"d", "i", "s", "p", "l", "a", "y", "V", "a", "l", "u", "e">>,
                  <<"b", "r", "a", "n", "d">>,
                  <<"n", "a", "m", "e">>,
                  <<"m", "e", "s", "s", "a", "g", "e">>>>

\* the test that sends a string to JSON.parse
LooksLikeJson(trimmed) ==
    \/ trimmed = ObjectObject
    \/ StartsWith(trimmed, <<"{", "\"">>)
    \/ StartsWith(trimmed, <<"{">>)

\* return val === '[object Object]' ? "" : val
PlainString(s) == IF s = ObjectObject THEN <<>> ELSE s

\* a catch branch that returns trimmed whatever it is
UnparsableKept(trimmed) == trimmed

\* the catch branch: return trimmed === '[object Object]' ? "" : trimmed
Unparsable(trimmed) == IF trimmed = ObjectObject THEN <<>> ELSE trimmed

\* String(val) of a number or a boolean
PrimitiveToString(val) ==
    IF val.t = "number" THEN NumberToString(val.n)
    ELSE IF val.b THEN <<"t", "r", "u", "e">> ELSE <<"f", "a", "l", "s", "e">>

\* .filter(Boolean) on strings
NonEmpty(s) == s # <<>>

\* the separator of the array branch's join
JoinSeparator == <<",", " ">>

\* the indices of the priority keys val holds with a value other than
\* undefined and null
PresentKeys(val) ==
    {i \in 1..Len(priorityKeys) :
        Prop(val, priorityKeys[i]).t \notin {"undefined", "null"}}

RECURSIVE sanitizeString(_), sanitizeParsed(_, _), sanitizeObject(_, _)

sanitizeString(val) ==
    IF val.t \in {"null", "undefined"} THEN <<>>
    ELSE IF val.t = "string" THEN
        IF LooksLikeJson(Trim(val.s))
        THEN sanitizeParsed(JSONparse(Trim(val.s)), Trim(val.s))
        ELSE PlainString(val.s)
    ELSE IF val.t \in {"number", "boolean"} THEN PrimitiveToString(val)
    ELSE IF val.t = "array" THEN
        Join(SelectSeq([i \in 1..Len(val.kids) |-> sanitizeString(val.kids[i])],
                       NonEmpty),
             JoinSeparator)
    ELSE sanitizeObject(val, PresentKeys(val))

\* the try / catch of lines 217-222: p is what JSON.parse(trimmed) gave
sanitizeParsed(p, trimmed) ==
    IF p.ok THEN sanitizeString(p.v) ELSE Unparsable(trimmed)

\* lines 233-249: present are the indices of the priority keys val holds
sanitizeObject(val, present) ==
    IF present # {} THEN sanitizeString(Prop(val, priorityKeys[Least(present)]))
    ELSE IF Len(val.keys) = 1 THEN sanitizeString(val.kids[1])
    ELSE <<>>

---------------------------------------------------------------------------
(* JSON texts of the enumerated inputs: JSON.stringify, by which the       *)
(* provider's responses and the JSON-in-a-string values are written.       *)

EscapeChar(c) ==
    CASE c = "\"" -> <<"\\", "\"">>
      [] c = "\\" -> <<"\\", "\\">>
      [] c = "\n" -> <<"\\", "n">>
      [] c = "\t" -> <<"\\", "t">>
      [] c = "\r" -> <<"\\", "r">>
      [] OTHER    -> <<c>>

\* the concatenation of the sequences parts[i..j]
RECURSIVE ConcatRange(_, _, _)
ConcatRange(parts, i, j) ==
    IF i > j THEN <<>>
    ELSE IF i = j THEN parts[i]
    ELSE LET m == (i + j) \div 2
         IN  ConcatRange(parts, i, m) \o ConcatRange(parts, m + 1, j)

Concat(parts) == ConcatRange(parts, 1, Len(parts))

Quote(s) == <<"\"">> \o Concat([i \in 1..Len(s) |-> EscapeChar(s[i])]) \o <<"\"">>

RECURSIVE Stringify(_)
Stringify(v) ==
    CASE v.t = "null"    -> <<"n", "u", "l", "l">>
      [] v.t = "boolean" -> PrimitiveToString(v)
      [] v.t = "number"  -> PrimitiveToString(v)
      [] v.t = "string"  -> Quote(v.s)
      [] v.t = "array"   ->
            <<"[">> \o Join([i \in 1..Len(v.kids) |-> Stringify(v.kids[i])], <<",">>)
                    \o <<"]">>
      [] v.t = "object"  ->
            <<"{">> \o Join([i \in 1..Len(v.keys) |->
                               Quote(v.keys[i]) \o <<":">> \o Stringify(v.kids[i])],
                            <<",">>)
                    \o <<"}">>

\* the sequences over S of length at most n
SeqsUpTo(S, n) == UNION {[1..k -> S] : k \in 0..n}

\* the sequences of distinct elements of S of length at most n
DistinctSeqsUpTo(S, n) ==
    {q \in SeqsUpTo(S, n) : \A i, j \in 1..Len(q) : i # j => q[i] # q[j]}

---------------------------------------------------------------------------
(* The values sanitizeString is applied to.                                *)

K_text  == <<"t", "e", "x", "t">>
K_value == <<"v", "a", "l", "u", "e">>
K_name  == <<"n", "a", "m", "e">>
K_message == <<"m", "e", "s", "s", "a", "g", "e">>
K_k     == <<"k">>

T_ab        == <<"a", "b">>
T_padded    == <<" ", "a", "b", "\n">>
T_artifact  == <<" ">> \o ObjectObject \o <<"\n">>
T_brace     == <<"{", "x">>
\* two strings, neither of them JSON, whose join with ", " is the JSON text
\* of a two-key object
T_fragHead  == <<"{", "\"", "a", "\"", ":", "1">>
T_fragTail  == <<"\"", "b", "\"", ":", "2", "}">>
T_jsonText  == <<"{", "\"", "t", "e", "x", "t", "\"", ":", "\"", "a", "b", "\"", "}">>

Primitives ==
    {JNull, JBool(TRUE), JBool(FALSE), JNum(0), JNum(42), JNum(-7)}

StringLeaves ==
    {JStr(s) : s \in {<<>>, T_ab, T_padded, ObjectObject, T_artifact, T_brace,
                      T_fragHead, T_fragTail, T_jsonText}}

ArrayLeaves ==
    {JNull, JNum(42), JStr(<<>>), JStr(T_ab), JStr(ObjectObject),
     JStr(T_fragHead), JStr(T_fragTail), JStr(T_jsonText)}

ObjectLeaves == {JNull, JStr(T_ab), JStr(ObjectObject), JNum(42)}

KeyAtoms == {K_text, K_value, K_name, K_k}

Arrays == {JArr(q) : q \in SeqsUpTo(ArrayLeaves, MaxLen)}

Objects ==
    UNION {{JObj(ks, vs) : vs \in [1..Len(ks) -> ObjectLeaves]} :
              ks \in DistinctSeqsUpTo(KeyAtoms, MaxLen)}

\* an array or an object as the one value of an object
Nested == {JObj(<<k>>, <<v>>) : k \in {K_text, K_k}, v \in Arrays \cup Objects}

\* the JSON text of an object, as a string value
JsonStrings == {JStr(Stringify(v)) : v \in Objects \cup Nested}

SanitizeInputs ==
    Primitives \cup StringLeaves \cup Arrays \cup Objects \cup Nested \cup JsonStrings

---------------------------------------------------------------------------
(* Specification SpecSanitize: sanitizeString applied to a value, and then *)
(* to the string it returned.                                              *)

\* sanitizeString(val)
Sanitize ==
    /\ sPc = "input"
    /\ sOut' = sanitizeString(sVal)
    /\ sPc' = "once"
    /\ UNCHANGED <<sVal, sOut2, anaVars, locVars>>

\* sanitizeString(sanitizeString(val)), as findNearestStore does with mapUri,
\* name and address
SanitizeAgain ==
    /\ sPc = "once"
    /\ sOut2' = sanitizeString(JStr(sOut))
    /\ sPc' = "twice"
    /\ UNCHANGED <<sVal, sOut, anaVars, locVars>>

SanNext == Sanitize \/ SanitizeAgain

---------------------------------------------------------------------------
(* analyzePrescription: JSON extraction.                                   *)

\* the character U+0060, which a TLA+ string cannot hold
Backtick == "<backtick>"

FenceJson == <<Backtick, Backtick, Backtick, "j", "s", "o", "n">>
Fence     == <<Backtick, Backtick, Backtick>>

\* text.replace(/```json/g, '').replace(/```/g, '').trim()
cleanedText(text) == Trim(RemoveAll(RemoveAll(text, FenceJson), Fence))

NoMatch == [found |-> FALSE, span |-> <<>>]

\* a reluctant match, /\{[\s\S]*?\}/: from the first "{" to the first "}" after it
jsonMatchReluctant(text) ==
    LET opens == {i \in 1..Len(text) : text[i] = "{"}
    IN  IF opens = {} THEN NoMatch
        ELSE LET first  == CHOOSE i \in opens : \A j \in opens : i <= j
                 closes == {i \in (first + 1)..Len(text) : text[i] = "}"}
             IN  IF closes = {} THEN NoMatch
                 ELSE [found |-> TRUE,
                       span  |-> SubSeq(text, first,
                                        CHOOSE i \in closes : \A j \in closes : i <= j)]

\* text.match(/\{[\s\S]*\}/): from the first "{" to the last "}" after it
jsonMatch(text) ==
    LET opens == {i \in 1..Len(text) : text[i] = "{"}
    IN  IF opens = {} THEN NoMatch
        ELSE LET first  == CHOOSE i \in opens : \A j \in opens : i <= j
                 closes == {i \in (first + 1)..Len(text) : text[i] = "}"}
             IN  IF closes = {} THEN NoMatch
                 ELSE [found |-> TRUE,
                       span  |-> SubSeq(text, first,
                                        CHOOSE i \in closes : \A j \in closes : j <= i)]

\* line 288 and its catch: second is what JSON.parse(jsonMatch[0]) gave
secondParse(second) ==
    IF second.ok THEN [err |-> "none", v |-> second.v]
    ELSE [err |-> "Failed to parse AI response as JSON", v |-> JUndefined]

\* lines 285-294: m is what text.match gave
fromMatch(m) ==
    IF m.found THEN secondParse(JSONparse(m.span))
    ELSE [err |-> "No JSON structure found in text", v |-> JUndefined]

\* lines 283-284: direct is what JSON.parse(cleanedText) gave
firstParse(direct, text) ==
    IF direct.ok THEN [err |-> "none", v |-> direct.v] ELSE fromMatch(jsonMatch(text))

\* the try / catch of lines 280-295: the value recovered, or the Error thrown
extractJson(text) == firstParse(JSONparse(cleanedText(text)), text)

---------------------------------------------------------------------------
(* analyzePrescription: normalization of the recovered value.              *)

K_metadata         == <<"m", "e", "t", "a", "d", "a", "t", "a">>
K_medications      == <<"m", "e", "d", "i", "c", "a", "t", "i", "o", "n", "s">>
K_bhashini_summary == <<"b", "h", "a", "s", "h", "i", "n", "i", "_", "s", "u", "m", "m", "a", "r", "y">>
K_disclaimer       == <<"d", "i", "s", "c", "l", "a", "i", "m", "e", "r">>
K_doctor           == <<"d", "o", "c", "t", "o", "r">>
K_date             == <<"d", "a", "t", "e">>
K_currency         == <<"c", "u", "r", "r", "e", "n", "c", "y">>
K_prescribed_brand == <<"p", "r", "e", "s", "c", "r", "i", "b", "e", "d", "_", "b", "r", "a", "n", "d">>
K_active_salt      == <<"a", "c", "t", "i", "v", "e", "_", "s", "a", "l", "t">>
K_jan_aushadhi_generic   == <<"j", "a", "n", "_", "a", "u", "s", "h", "a", "d", "h", "i", "_", "g", "e", "n", "e", "r", "i", "c">>
K_brand_price_est        == <<"b", "r", "a", "n", "d", "_", "p", "r", "i", "c", "e", "_", "e", "s", "t">>
K_jan_aushadhi_price_est == <<"j", "a", "n", "_", "a", "u", "s", "h", "a", "d", "h", "i", "_", "p", "r", "i", "c", "e", "_", "e", "s", "t">>
K_savings_est      == <<"s", "a", "v", "i", "n", "g", "s", "_", "e", "s", "t">>
K_en == <<"e", "n">>
K_hi == <<"h", "i">>
K_te == <<"t", "e">>
K_ta == <<"t", "a">>
K_kn == <<"k", "n">>
K_bn == <<"b", "n">>
K_mr == <<"m", "r">>

NotProvidedInImage == <<"N", "o", "t", " ", "p", "r", "o", "v", "i", "d", "e", "d", " ", "i", "n", " ", "i", "m", "a", "g", "e">>
INR                == <<"I", "N", "R">>
AnalysisComplete   == <<"A", "n", "a", "l", "y", "s", "i", "s", " ", "c", "o", "m", "p", "l", "e", "t", "e", ".">>
NotProvidedMarker  == <<"n", "o", "t", " ", "p", "r", "o", "v", "i", "d", "e", "d">>
IllegibleMarker    == <<"i", "l", "l", "e", "g", "i", "b", "l", "e">>

\* a value on which a property write throws TypeError in module (strict) code
IsPrimitive(v) == v.t \in {"boolean", "number", "string"}

\* a value on which a property read throws TypeError
IsNullish(v) == v.t \in {"null", "undefined"}

EmptyObject == JObj(<<>>, <<>>)

\* if (!parsed) parsed = {}
parsedOrEmpty(parsed) == IF Truthy(parsed) THEN parsed ELSE EmptyObject

\* if (!parsed.metadata) parsed.metadata = {}
metadataOf(p) == OrElse(Prop(p, K_metadata), EmptyObject)

\* if (!parsed.medications || !Array.isArray(parsed.medications)) parsed.medications = []
medicationsOf(p) ==
    LET m == Prop(p, K_medications)
    IN  IF Truthy(m) /\ m.t = "array" THEN m.kids ELSE <<>>

\* if (!parsed.bhashini_summary) parsed.bhashini_summary = {}
summaryOf(p) == OrElse(Prop(p, K_bhashini_summary), EmptyObject)

\* the .map callback of lines 303-310 (m is not null: reading its property throws)
mapMedication(m) ==
    [prescribed_brand       |-> sanitizeString(Prop(m, K_prescribed_brand)),
     active_salt            |-> sanitizeString(Prop(m, K_active_salt)),
     jan_aushadhi_generic   |-> sanitizeString(Prop(m, K_jan_aushadhi_generic)),
     brand_price_est        |-> sanitizeString(Prop(m, K_brand_price_est)),
     jan_aushadhi_price_est |-> sanitizeString(Prop(m, K_jan_aushadhi_price_est)),
     savings_est            |-> sanitizeString(Prop(m, K_savings_est))]

\* a filter callback that tests the brand as written, without toLowerCase()
keepMedicationAsWritten(m) ==
    LET brand == m.prescribed_brand
    IN  /\ brand # <<>>
        /\ Len(brand) > 1
        /\ ~Includes(brand, NotProvidedMarker)
        /\ ~Includes(brand, IllegibleMarker)

\* the .filter callback of lines 311-314
keepMedication(m) ==
    LET brand == toLowerCase(m.prescribed_brand)
    IN  /\ brand # <<>>
        /\ Len(brand) > 1
        /\ ~Includes(brand, NotProvidedMarker)
        /\ ~Includes(brand, IllegibleMarker)

\* lines 302-314
normalizeMedications(meds) ==
    SelectSeq([i \in 1..Len(meds) |-> mapMedication(meds[i])], keepMedication)

\* lines 316-318
normalizeMetadata(md) ==
    [doctor   |-> sanitizeString(OrElse(Prop(md, K_doctor), JStr(NotProvidedInImage))),
     date     |-> sanitizeString(OrElse(Prop(md, K_date), JStr(NotProvidedInImage))),
     currency |-> sanitizeString(OrElse(Prop(md, K_currency), JStr(INR)))]

\* lines 320-325
normalizeSummary(s) ==
    [en |-> sanitizeString(OrElse(Prop(s, K_en), JStr(AnalysisComplete))),
     hi |-> sanitizeString(Prop(s, K_hi)),
     te |-> sanitizeString(Prop(s, K_te)),
     ta |-> sanitizeString(Prop(s, K_ta)),
     kn |-> sanitizeString(Prop(s, K_kn)),
     bn |-> sanitizeString(Prop(s, K_bn)),
     mr |-> sanitizeString(Prop(s, K_mr))]

\* whether lines 297-327 throw TypeError: a property is written on a primitive
\* (parsed itself, or its metadata) or read from a null medication entry
normalizeThrows(parsed) ==
    LET p == parsedOrEmpty(parsed)
    IN  \/ IsPrimitive(p)
        \/ IsPrimitive(metadataOf(p))
        \/ \E i \in 1..Len(medicationsOf(p)) : IsNullish(medicationsOf(p)[i])

\* the AnalysisResult of lines 297-329, reached when nothing throws
normalize(parsed) ==
    LET p == parsedOrEmpty(parsed)
    IN  [metadata         |-> normalizeMetadata(metadataOf(p)),
         medications      |-> normalizeMedications(medicationsOf(p)),
         bhashini_summary |-> normalizeSummary(summaryOf(p)),
         disclaimer       |-> sanitizeString(Prop(p, K_disclaimer))]

NoResult ==
    [metadata         |-> [doctor |-> <<>>, date |-> <<>>, currency |-> <<>>],
     medications      |-> <<>>,
     bhashini_summary |-> [en |-> <<>>, hi |-> <<>>, te |-> <<>>, ta |-> <<>>,
                           kn |-> <<>>, bn |-> <<>>, mr |-> <<>>],
     disclaimer       |-> <<>>]

\* lines 297-329, given what the extraction gave
afterExtract(x) ==
    IF x.err # "none"
    THEN [outcome |-> x.err, parsed |-> JUndefined, result |-> NoResult]
    ELSE IF normalizeThrows(x.v)
    THEN [outcome |-> "TypeError", parsed |-> x.v, result |-> NoResult]
    ELSE [outcome |-> "returned", parsed |-> x.v, result |-> normalize(x.v)]

\* the body of analyzePrescription from line 277 on, given response.text
\* (an absent text is the empty text: both fail the test of line 278)
afterResponse(text) ==
    IF text = <<>>
    THEN [outcome |-> "No response text from AI", parsed |-> JUndefined,
          result |-> NoResult]
    ELSE afterExtract(extractJson(text))

---------------------------------------------------------------------------
(* The response texts analyzePrescription is given.                        *)

Obj1(k, v) == JObj(<<k>>, <<v>>)
Obj2(k1, v1, k2, v2) == JObj(<<k1, k2>>, <<v1, v2>>)

T_Crocin    == <<"C", "r", "o", "c", "i", "n">>
T_ILLEGIBLE == <<"I", "L", "L", "E", "G", "I", "B", "L", "E", " ", "s", "c", "r", "a", "w", "l">>
T_Dolo      == <<"D", "o", "l", "o", " ", "6", "5", "0">>
T_salt      == <<"P", "a", "r", "a", "c", "e", "t", "a", "m", "o", "l">>
T_DrRao     == <<"D", "r", " ", "R", "a", "o">>
T_DrDas     == <<"D", "r", " ", "D", "a", "s">>
T_date      == <<"1", "2", "-", "0", "3", "-", "2", "0", "2", "4">>
T_take      == <<"T", "a", "k", "e", " ", "a", "f", "t", "e", "r", " ", "f", "o", "o", "d">>
T_hindi     == <<"k", "h", "a", "n", "e", " ", "k", "e", " ", "b", "a", "a", "d">>
T_consult   == <<"C", "o", "n", "s", "u", "l", "t", " ", "a", " ", "d", "o", "c", "t", "o", "r">>
T_fenced    == <<"s", "e", "e", " ">> \o Fence
T_abc       == <<"a", "b", "c">>

\* a medication entry as the response schema asks for it
Med(brand) == Obj2(K_prescribed_brand, brand, K_active_salt, JStr(T_salt))

MedEntries ==
    {Med(b) : b \in {JStr(T_Crocin), JStr(NotProvidedInImage), JStr(T_ILLEGIBLE),
                     JStr(<<"x">>), JStr(<<>>), JStr(ObjectObject),
                     Obj1(K_text, JStr(T_Dolo))}}
    \cup {JNull, JStr(T_Crocin), EmptyObject}

MedicationSections ==
    {JArr(q) : q \in SeqsUpTo(MedEntries, MaxLen)}
    \cup {JNull, JStr(T_abc), Med(JStr(T_Crocin))}

DoctorValues ==
    {JStr(T_DrRao), JStr(<<>>), JNum(0), JNull, EmptyObject, JStr(ObjectObject),
     Obj1(K_name, JStr(T_DrRao)), JArr(<<JStr(T_DrRao), JStr(T_DrDas)>>)}

MetadataSections ==
    {JNull, JStr(T_abc), JNum(5), JBool(TRUE), JArr(<<>>), EmptyObject}
    \cup {Obj1(K_doctor, d) : d \in DoctorValues}
    \cup {JObj(<<K_doctor, K_date, K_currency>>,
               <<JStr(T_DrRao), JStr(T_date), c>>) : c \in {JStr(INR), JNull, JNum(0)}}

EnValues ==
    {JStr(T_take), JStr(<<>>), JStr(<<" ">>), JNum(0), JNull, EmptyObject, JArr(<<>>),
     JStr(ObjectObject), Obj1(K_text, JStr(T_take))}

SummarySections ==
    {JNull, JStr(T_abc), JArr(<<>>), EmptyObject}
    \cup {Obj1(K_en, e) : e \in EnValues}
    \cup {Obj2(K_en, e, K_hi, JStr(T_hindi)) : e \in EnValues}
    \cup {Obj1(K_hi, JStr(T_hindi))}

DisclaimerValues ==
    {JStr(T_consult), JNull, EmptyObject, JStr(T_fenced), JStr(ObjectObject),
     Obj1(K_message, JStr(T_consult))}

\* a response with all four sections
FullResponses ==
    {JObj(<<K_metadata, K_medications, K_bhashini_summary, K_disclaimer>>,
          <<Obj1(K_doctor, JStr(T_DrRao)), JArr(q), Obj1(K_en, e), JStr(T_consult)>>) :
        q \in SeqsUpTo({Med(JStr(T_Crocin)), Med(JStr(NotProvidedInImage))}, MaxLen),
        e \in {JStr(T_take), JStr(<<>>)}}

\* JSON values that are no object
NonObjects ==
    {JNull, JNum(0), JNum(5), JStr(<<>>), JStr(T_abc), JBool(TRUE), JBool(FALSE),
     JArr(<<>>), JArr(<<JNum(1)>>)}

SectionResponses ==
    {Obj1(K_medications, m) : m \in MedicationSections}
    \cup {Obj1(K_metadata, m) : m \in MetadataSections}
    \cup {Obj1(K_bhashini_summary, s) : s \in SummarySections}
    \cup {Obj1(K_disclaimer, d) : d \in DisclaimerValues}

\* the responses that are also sent fenced, inside noise and inside brackets
WrappedResponses ==
    FullResponses
    \cup {Obj1(K_disclaimer, d) : d \in DisclaimerValues}
    \cup {Obj1(K_bhashini_summary, s) : s \in SummarySections}
    \cup {EmptyObject}

\* texts that are not the JSON text of a value
RawTexts ==
    {<<>>, <<" ">>, <<"n", "o", " ", "b", "r", "a", "c", "e", "s", " ", "h", "e", "r", "e">>, <<"{", "\"", "m", "e", "t", "a", "d", "a", "t", "a", "\"", ":", " ">>, <<"}", " ", "{">>,
     <<"{", "}", " ", "a", "n", "d", " ", "{", "}">>, <<"{", "\"", "d", "i", "s", "c", "l", "a", "i", "m", "e", "r", "\"", ":", "\"", "a", "\"", "}", " ", "o", "r", " ", "{", "\"", "d", "i", "s", "c", "l", "a", "i", "m", "e", "r", "\"", ":", "\"", "b", "\"", "}">>,
     <<" ", "{", "\"", "d", "i", "s", "c", "l", "a", "i", "m", "e", "r", "\"", " ", ":", " ", "\"", "a", "\"", " ", "}", "\n">>, <<"[", "1", ",", " ", "2">>, <<"j", "s", "o", "n">>}

NoisePrefix == <<"H", "e", "r", "e", " ", "i", "s", " ", "t", "h", "e", " ", "r", "e", "s", "u", "l", "t", ":", " ">>
NoiseSuffix == <<" ", "(", "e", "n", "d", ")">>

\* how a response text is made: kind, and the value (or, for "raw", the text)
ResponseSources ==
    {[kind |-> "bare", v |-> v] :
        v \in SectionResponses \cup FullResponses \cup NonObjects \cup {EmptyObject}}
    \cup {[kind |-> k, v |-> v] :
            k \in {"fenced", "fencedPlain", "noise", "bracketed"}, v \in WrappedResponses}
    \cup {[kind |-> "raw", v |-> JStr(t)] : t \in RawTexts}

TextOf(src) ==
    CASE src.kind = "bare"        -> Stringify(src.v)
      [] src.kind = "fenced"      -> FenceJson \o <<"\n">> \o Stringify(src.v)
                                               \o <<"\n">> \o Fence
      [] src.kind = "fencedPlain" -> Fence \o <<"\n">> \o Stringify(src.v)
                                           \o <<"\n">> \o Fence \o <<"\n">>
      [] src.kind = "noise"       -> NoisePrefix \o Stringify(src.v) \o NoiseSuffix
      [] src.kind = "bracketed"   -> <<"[">> \o Stringify(src.v) \o <<"]">>
      [] src.kind = "raw"         -> src.v.s

---------------------------------------------------------------------------
(* Specification SpecAnalyze: one call of analyzePrescription.             *)

NoSource == [kind |-> "none", v |-> JUndefined]

\* analyzePrescription is called and suspends at await ai.models.generateContent
AnalyzeCalled ==
    /\ aPc = "idle"
    /\ aPc' = "awaiting"
    /\ UNCHANGED <<aSrc, aText, aParsed, aOutcome, aResult, sanVars, locVars>>

\* the call ends as r says on the response text made as src says
analyzeEnds(src, r) ==
    /\ aSrc' = src
    /\ aText' = TextOf(src)
    /\ aParsed' = r.parsed
    /\ aOutcome' = r.outcome
    /\ aResult' = r.result

\* the provider answers, and the call runs from line 277 to its return or throw
AnalyzeResponse ==
    /\ aPc = "awaiting"
    /\ \E src \in ResponseSources : analyzeEnds(src, afterResponse(TextOf(src)))
    /\ aPc' = "done"
    /\ UNCHANGED <<sanVars, locVars>>

\* the provider call rejects: the catch of line 330 rethrows the error
AnalyzeRejected ==
    /\ aPc = "awaiting"
    /\ aOutcome' = "rejected"
    /\ aPc' = "done"
    /\ UNCHANGED <<aSrc, aText, aParsed, aResult, sanVars, locVars>>

AnaNext == AnalyzeCalled \/ AnalyzeResponse \/ AnalyzeRejected

---------------------------------------------------------------------------
(* findNearestStore.                                                       *)

K_maps               == <<"m", "a", "p", "s">>
K_uri                == <<"u", "r", "i">>
K_title              == <<"t", "i", "t", "l", "e">>
K_placeAnswerSources == <<"p", "l", "a", "c", "e", "A", "n", "s", "w", "e", "r", "S", "o", "u", "r", "c", "e", "s">>
K_reviewSnippets     == <<"r", "e", "v", "i", "e", "w", "S", "n", "i", "p", "p", "e", "t", "s">>

DefaultStoreName == <<"J", "a", "n", " ", "A", "u", "s", "h", "a", "d", "h", "i", " ", "K", "e", "n", "d", "r", "a">>
VerifiedStore    == <<"J", "a", "n", " ", "A", "u", "s", "h", "a", "d", "h", "i", " ", "K", "e", "n", "d", "r", "a", " ", "(", "V", "e", "r", "i", "f", "i", "e", "d", " ", "S", "t", "o", "r", "e", ")">>
SearchUrlPrefix  ==
    <<"h", "t", "t", "p", "s", ":", "/", "/", "w", "w", "w", ".", "g", "o", "o", "g", "l", "e", ".", "c", "o", "m", "/", "m", "a", "p", "s", "/", "s", "e", "a", "r", "c", "h", "/", "P", "r", "a", "d", "h", "a", "n", "+", "M", "a", "n", "t", "r", "i", "+", "B", "h", "a", "r", "t", "i", "y", "a", "+", "J", "a", "n", "a", "u", "s", "h", "a", "d", "h", "i", "+", "K", "e", "n", "d", "r", "a", "/", "@">>
SearchUrlSuffix  == <<",", "1", "5", "z">>

\* StoreLocation | null
NullStore == [set |-> FALSE, name |-> <<>>, address |-> <<>>, mapUri |-> <<>>]
StoreLocation(name, address, mapUri) ==
    [set |-> TRUE, name |-> name, address |-> address, mapUri |-> mapUri]

\* `https://www.google.com/maps/search/.../@${lat},${lng},15z`
searchUrl(lat, lng) ==
    SearchUrlPrefix \o NumberToString(lat) \o <<",">> \o NumberToString(lng)
                    \o SearchUrlSuffix

\* chunk.maps.placeAnswerSources?.reviewSnippets
reviewSnippetsOf(maps) ==
    LET pas == Prop(maps, K_placeAnswerSources)
    IN  IF IsNullish(pas) THEN JUndefined ELSE Prop(pas, K_reviewSnippets)

\* the forEach callback of lines 361-370, on a chunk that is not null
chunkStep(acc, chunk) ==
    LET maps == Prop(chunk, K_maps)
        s    == reviewSnippetsOf(maps)
    IN  IF ~Truthy(maps) THEN acc
        ELSE [mapUri   |-> IF Truthy(Prop(maps, K_uri))
                           THEN sanitizeString(Prop(maps, K_uri)) ELSE acc.mapUri,
              name     |-> IF Truthy(Prop(maps, K_title))
                           THEN sanitizeString(Prop(maps, K_title)) ELSE acc.name,
              snippets |-> IF Truthy(s) /\ s.t = "array"
                           THEN acc.snippets \o <<" ">>
                                \o Join([i \in 1..Len(s.kids) |-> sanitizeString(s.kids[i])],
                                        <<".", " ">>)
                           ELSE acc.snippets]

\* chunks.forEach(...), from the values of lines 357-359
RECURSIVE forEachChunk(_, _)
forEachChunk(acc, chunks) ==
    IF chunks = <<>> THEN acc
    ELSE forEachChunk(chunkStep(acc, Head(chunks)), Tail(chunks))

scanChunks(chunks) ==
    forEachChunk([mapUri |-> <<>>, name |-> DefaultStoreName, snippets |-> <<>>], chunks)

\* lines 375-377: the address, or the placeholder with the snippets
addressOrPlaceholder(address, snippets) ==
    IF address = <<>> \/ Len(address) < 5
    THEN VerifiedStore \o (IF snippets # <<>> THEN <<":", " ">> \o snippets ELSE <<>>)
    ELSE address

\* typeof response.text === 'string' ? response.text : ""
rawTextOf(text) == IF text.t = "string" THEN text.s ELSE <<>>

\* lines 372-377
addressOf(text, snippets) ==
    addressOrPlaceholder(
        sanitizeString(JStr(Trim(RemoveAll(rawTextOf(text), <<"*">>)))), snippets)

\* x || d on strings
OrDefault(x, d) == IF x # <<>> THEN x ELSE d

\* sanitizeString(name) || "Jan Aushadhi Kendra"
finalName(name) == OrDefault(sanitizeString(JStr(name)), DefaultStoreName)

\* lines 379-381 and 386
finalMapUri(mapUri, lat, lng) ==
    sanitizeString(JStr(OrDefault(mapUri, searchUrl(lat, lng))))

\* lines 372-387, acc being what the scan of the chunks left
storeFrom(acc, lat, lng, text) ==
    StoreLocation(finalName(acc.name),
                  sanitizeString(JStr(addressOf(text, acc.snippets))),
                  finalMapUri(acc.mapUri, lat, lng))

\* the value findNearestStore resolves to when the provider answers resp:
\* null without candidates, null from the catch of line 388 when reading
\* chunk.maps of a null chunk throws, else the StoreLocation
findNearestStore(lat, lng, resp) ==
    IF ~resp.candidates THEN NullStore
    ELSE IF \E i \in 1..Len(resp.chunks) : IsNullish(resp.chunks[i]) THEN NullStore
    ELSE storeFrom(scanChunks(resp.chunks), lat, lng, resp.text)

\* the value findNearestStore resolves to when the provider call rejects:
\* the catch of line 388 returns null
findNearestStoreRejected == NullStore

---------------------------------------------------------------------------
(* The provider responses findNearestStore is given.                       *)

T_uri     == <<"h", "t", "t", "p", "s", ":", "/", "/", "m", "a", "p", "s", ".", "a", "p", "p", "/", "k", "1">>
T_uri2    == <<"h", "t", "t", "p", "s", ":", "/", "/", "m", "a", "p", "s", ".", "a", "p", "p", "/", "k", "2">>
T_title   == <<"K", "e", "n", "d", "r", "a", " ", "I", "n", "d", "i", "r", "a", "n", "a", "g", "a", "r">>
T_answer  == <<"*", "*", "K", "e", "n", "d", "r", "a", "*", "*", ",", " ", "1", "2", " ", "M", "G", " ", "R", "o", "a", "d">>
T_snippet == <<"G", "o", "o", "d", " ", "s", "t", "o", "c", "k">>

\* what the provider may put in a chunk's maps.uri
UriValues ==
    {JStr(T_uri), JStr(T_uri2), JStr(<<>>), JNull, EmptyObject, JStr(ObjectObject),
     Obj1(K_text, JStr(T_uri)), JArr(<<JStr(T_fragHead), JStr(T_fragTail)>>)}

ChunkValues ==
    {Obj1(K_maps, Obj1(K_uri, u)) : u \in UriValues}
    \cup {Obj1(K_maps, Obj1(K_title, JStr(T_title))),
          Obj1(K_maps, Obj2(K_uri, JStr(T_uri), K_title, Obj1(K_name, JStr(T_title)))),
          Obj1(K_maps, Obj1(K_placeAnswerSources,
                            Obj1(K_reviewSnippets,
                                 JArr(<<JStr(T_snippet), Obj1(K_text, JStr(T_snippet))>>)))),
          Obj1(K_maps, JNull),
          Obj1(<<"w", "e", "b">>, Obj1(K_uri, JStr(T_uri))),
          JNull}

AnswerTexts == {JUndefined, JStr(T_answer), JStr(<<"{", "}">>)}

\* response.candidates empty or absent
NoCandidates == [candidates |-> FALSE, chunks |-> <<>>, text |-> JUndefined]

StoreResponses ==
    {NoCandidates}
    \cup {[candidates |-> TRUE, chunks |-> c, text |-> t] :
            c \in SeqsUpTo(ChunkValues, MaxLen), t \in AnswerTexts}

\* the positions the device reports: <<latitude, longitude>>
Positions == {<<12, 77>>, <<-33, 0>>}

---------------------------------------------------------------------------
(* The JanAushadhiLocator component.                                       *)

\* most locate attempts the model lets be in flight at once
MaxInFlight == 2

NullError == "<null>"

UnsupportedMessage  == "Geolocation is not supported by your browser"
NoStoreMessage      ==
    "Unable to find a store nearby. Please try again or search on Google Maps."
ConnectionMessage   == "Connection issue. Please check your internet and try again."
DefaultGeoMessage   == "Location could not be retrieved. Please try again."
PermissionMessage   == "Location access is required to find the nearest store."
UnavailableMessage  ==
    "Position unavailable. Please ensure GPS is enabled and you have a signal."
TimeoutMessage      == "Location request timed out. Please try again."

\* the GeolocationPositionError values: code, and message ("" when it has none)
GeoErrors ==
    {[code |-> "PERMISSION_DENIED", message |-> "User denied Geolocation"],
     [code |-> "POSITION_UNAVAILABLE", message |-> ""],
     [code |-> "TIMEOUT", message |-> "Timeout expired"],
     [code |-> "OTHER", message |-> "Only secure origins are allowed"],
     [code |-> "OTHER", message |-> ""]}

\* lines 58-69
userMessage(err) ==
    IF err.code = "PERMISSION_DENIED" THEN PermissionMessage
    ELSE IF err.code = "POSITION_UNAVAILABLE" THEN UnavailableMessage
    ELSE IF err.code = "TIMEOUT" THEN TimeoutMessage
    ELSE IF err.message # "" THEN err.message
    ELSE DefaultGeoMessage

\* locate attempts in flight: waiting for the position, or for findNearestStore
InFlight == geoPending + Len(aiPending)

NoAttempt ==
    [how |-> "none", lat |-> 0, lng |-> 0, rejected |-> FALSE, resp |-> NoCandidates]

\* handleLocate, lines 17-76; supported is the truth of navigator.geolocation
handleLocate(supported) ==
    /\ permissionDenied' = FALSE
    /\ IF supported
       THEN /\ loading' = TRUE
            /\ error' = NullError
            /\ geoPending' = geoPending + 1
            /\ lastAttempt' = NoAttempt
       ELSE /\ loading' = FALSE
            /\ error' = UnsupportedMessage
            /\ geoPending' = geoPending
            /\ lastAttempt' = [NoAttempt EXCEPT !.how = "unsupported"]
    /\ UNCHANGED <<store, aiPending>>

\* useEffect(() => { handleLocate(); }, [])
Mount ==
    /\ ~mounted
    /\ mounted' = TRUE
    /\ \E supported \in BOOLEAN : handleLocate(supported)
    /\ UNCHANGED <<sanVars, anaVars>>

\* a Try Again button rendered while an attempt is loading as well
tryAgainWhileLoading == ~store.set

\* the Try Again button is rendered: lines 78 and 126
tryAgainOffered == ~store.set /\ ~loading

\* onClick={handleLocate}
TryAgain ==
    /\ mounted
    /\ tryAgainOffered
    /\ InFlight < MaxInFlight
    /\ \E supported \in BOOLEAN : handleLocate(supported)
    /\ UNCHANGED <<mounted, sanVars, anaVars>>

\* the success callback of getCurrentPosition up to its await: findNearestStore
\* is called and suspends at await ai.models.generateContent
PositionFound ==
    /\ geoPending > 0
    /\ \E pos \in Positions :
          aiPending' = Append(aiPending, [lat |-> pos[1], lng |-> pos[2]])
    /\ geoPending' = geoPending - 1
    /\ UNCHANGED <<mounted, loading, store, error, permissionDenied, lastAttempt,
                   sanVars, anaVars>>

\* the error callback of getCurrentPosition, lines 54-73
PositionError ==
    /\ geoPending > 0
    /\ \E err \in GeoErrors :
          /\ permissionDenied' = (permissionDenied \/ err.code = "PERMISSION_DENIED")
          /\ error' = userMessage(err)
    /\ loading' = FALSE
    /\ geoPending' = geoPending - 1
    /\ lastAttempt' = [NoAttempt EXCEPT !.how = "geoError"]
    /\ UNCHANGED <<mounted, store, aiPending, sanVars, anaVars>>

\* lines 36-52 after the await: result is what findNearestStore resolved to,
\* threw whether it rejected
afterFindNearestStore(threw, result) ==
    /\ IF threw
       THEN error' = ConnectionMessage /\ store' = store
       ELSE IF result.set
       THEN store' = result /\ error' = error
       ELSE error' = NoStoreMessage /\ store' = store
    /\ loading' = FALSE

\* the provider answers a pending findNearestStore, which resolves
StoreAnswer ==
    /\ aiPending # <<>>
    /\ \E resp \in StoreResponses :
          LET call == Head(aiPending)
          IN  /\ afterFindNearestStore(FALSE, findNearestStore(call.lat, call.lng, resp))
              /\ lastAttempt' = [how |-> "ai", lat |-> call.lat, lng |-> call.lng,
                                 rejected |-> FALSE, resp |-> resp]
    /\ aiPending' = Tail(aiPending)
    /\ UNCHANGED <<mounted, permissionDenied, geoPending, sanVars, anaVars>>

\* the provider call of a pending findNearestStore rejects (no connectivity,
\* timeout): findNearestStore catches it and resolves to null
StoreCallFails ==
    /\ aiPending # <<>>
    /\ LET call == Head(aiPending)
       IN  /\ afterFindNearestStore(FALSE, findNearestStoreRejected)
           /\ lastAttempt' = [how |-> "ai", lat |-> call.lat, lng |-> call.lng,
                              rejected |-> TRUE, resp |-> NoCandidates]
    /\ aiPending' = Tail(aiPending)
    /\ UNCHANGED <<mounted, permissionDenied, geoPending, sanVars, anaVars>>

LocNext ==
    Mount \/ TryAgain \/ PositionFound \/ PositionError \/ StoreAnswer \/ StoreCallFails

---------------------------------------------------------------------------
(* The specifications.                                                     *)

\* sanitizeString is given a value; nothing else runs
SanitizeInit ==
    /\ sPc = "input"
    /\ sVal \in SanitizeInputs
    /\ sOut = <<>>
    /\ sOut2 = <<>>
    /\ aPc = "off"
    /\ aSrc = NoSource
    /\ aText = <<>>
    /\ aParsed = JUndefined
    /\ aOutcome = "none"
    /\ aResult = NoResult
    /\ mounted = FALSE
    /\ loading = FALSE
    /\ store = NullStore
    /\ error = NullError
    /\ permissionDenied = FALSE
    /\ geoPending = 0
    /\ aiPending = <<>>
    /\ lastAttempt = NoAttempt

\* analyzePrescription is about to be called; nothing else runs
AnalyzeInit ==
    /\ sPc = "off"
    /\ sVal = JUndefined
    /\ sOut = <<>>
    /\ sOut2 = <<>>
    /\ aPc = "idle"
    /\ aSrc = NoSource
    /\ aText = <<>>
    /\ aParsed = JUndefined
    /\ aOutcome = "none"
    /\ aResult = NoResult
    /\ mounted = FALSE
    /\ loading = FALSE
    /\ store = NullStore
    /\ error = NullError
    /\ permissionDenied = FALSE
    /\ geoPending = 0
    /\ aiPending = <<>>
    /\ lastAttempt = NoAttempt

\* the component with the state of lines 7-10, before its mount effect has run
LocatorInit ==
    /\ sPc = "off"
    /\ sVal = JUndefined
    /\ sOut = <<>>
    /\ sOut2 = <<>>
    /\ aPc = "off"
    /\ aSrc = NoSource
    /\ aText = <<>>
    /\ aParsed = JUndefined
    /\ aOutcome = "none"
    /\ aResult = NoResult
    /\ mounted = FALSE
    /\ loading = FALSE
    /\ store = NullStore
    /\ error = NullError
    /\ permissionDenied = FALSE
    /\ geoPending = 0
    /\ aiPending = <<>>
    /\ lastAttempt = NoAttempt

SpecSanitize == SanitizeInit /\ [][SanNext]_vars

SpecAnalyze == AnalyzeInit /\ [][AnaNext]_vars

SpecLocator == LocatorInit /\ [][LocNext]_vars

---------------------------------------------------------------------------
(* Claims about sanitizeString, checked under SpecSanitize.                *)

\* C1: for every JSON-representable input (null, string, number, boolean,
\* array, object, nested, including strings that hold JSON text) the result
\* of sanitizeString is never the text "[object Object]"; nor is the result
\* of sanitizing that result again.
C1_NeverObjectObject ==
    /\ sPc \in {"once", "twice"} => sOut # ObjectObject
    /\ sPc = "twice" => sOut2 # ObjectObject

\* C1 witness: the artifact itself, padded with white space, was sanitized
\* to the empty string.
C1_Witness ==
    /\ sPc = "once"
    /\ sVal.t = "string"
    /\ sVal.s # ObjectObject
    /\ Trim(sVal.s) = ObjectObject
    /\ sOut = <<>>

\* C2 (as claimed): sanitizeString is idempotent on strings: for a string
\* input, sanitizing the result again gives the same result.
C2_Idempotent ==
    (sPc = "twice" /\ sVal.t = "string") => sOut2 = sOut

K_displayValue == <<"d", "i", "s", "p", "l", "a", "y", "V", "a", "l", "u", "e">>
K_brand        == <<"b", "r", "a", "n", "d">>

\* the object holds key k with a value other than null
NonNullAt(v, k) == HasKey(v, k) /\ Prop(v, k).t # "null"

\* what C9 says sanitizeString returns for a non-array object
C9_Expected(v) ==
    IF NonNullAt(v, K_text) THEN sanitizeString(Prop(v, K_text))
    ELSE IF NonNullAt(v, K_value) THEN sanitizeString(Prop(v, K_value))
    ELSE IF NonNullAt(v, K_displayValue) THEN sanitizeString(Prop(v, K_displayValue))
    ELSE IF NonNullAt(v, K_brand) THEN sanitizeString(Prop(v, K_brand))
    ELSE IF NonNullAt(v, K_name) THEN sanitizeString(Prop(v, K_name))
    ELSE IF NonNullAt(v, K_message) THEN sanitizeString(Prop(v, K_message))
    ELSE IF Len(v.keys) = 1
        THEN sanitizeString(v.kids[1])
    ELSE <<>>

\* C9: for a non-array object sanitizeString returns the sanitized value of
\* the first of text, value, displayValue, brand, name, message that is
\* present with a non-null value (later keys are not tried, even when that
\* value sanitizes to empty); with no such key and exactly one key, the
\* sanitized value of that key; otherwise the empty string.
C9_ObjectRule ==
    (sPc \in {"once", "twice"} /\ sVal.t = "object") => sOut = C9_Expected(sVal)

\* C9 witness: text holds a value that sanitizes to empty, value holds one that
\* does not, and the result is empty: value was not tried.
C9_Witness ==
    /\ sPc = "once"
    /\ sVal.t = "object"
    /\ NonNullAt(sVal, K_text)
    /\ sanitizeString(Prop(sVal, K_text)) = <<>>
    /\ NonNullAt(sVal, K_value)
    /\ sanitizeString(Prop(sVal, K_value)) # <<>>
    /\ sOut = <<>>

---------------------------------------------------------------------------
(* Claims about analyzePrescription, checked under SpecAnalyze.            *)

\* the string fields of an AnalysisResult
ResultStrings(r) ==
    {r.metadata.doctor, r.metadata.date, r.metadata.currency, r.disclaimer,
     r.bhashini_summary.en, r.bhashini_summary.hi, r.bhashini_summary.te,
     r.bhashini_summary.ta, r.bhashini_summary.kn, r.bhashini_summary.bn,
     r.bhashini_summary.mr}
    \cup UNION {{r.medications[i].prescribed_brand, r.medications[i].active_salt,
                 r.medications[i].jan_aushadhi_generic,
                 r.medications[i].brand_price_est,
                 r.medications[i].jan_aushadhi_price_est,
                 r.medications[i].savings_est} : i \in 1..Len(r.medications)}

\* C3 (as claimed): for every object recovered from the response text (its
\* sections missing, null or of the wrong type, its medication entries of any
\* JSON type) the normalization completes without raising, and no string
\* field of the result is "[object Object]".
C3_NormalizationTotal ==
    (aPc = "done" /\ aParsed.t = "object")
        => /\ aOutcome = "returned"
           /\ \A s \in ResultStrings(aResult) : s # ObjectObject

\* the bhashini_summary section the normalization reads en from
SourceSummary == summaryOf(parsedOrEmpty(aParsed))

\* C4 (as claimed): the result of analyzePrescription has a non-empty
\* bhashini_summary.en, which is "Analysis complete." when the source has
\* no en field.
C4_SummaryEnNonEmpty ==
    aOutcome = "returned"
        => /\ aResult.bhashini_summary.en # <<>>
           /\ ~HasKey(SourceSummary, K_en)
                 => aResult.bhashini_summary.en = AnalysisComplete

\* c is the letter d (a lower-case letter of a marker) in either case
SameLetter(c, d) ==
    c = d \/ \E k \in 1..Len(LowerCase) : LowerCase[k] = d /\ UpperCase[k] = c

\* s contains marker in any letter case
ContainsAnyCase(s, marker) ==
    \E i \in 1..Len(s) :
        /\ i + Len(marker) - 1 <= Len(s)
        /\ \A j \in 1..Len(marker) : SameLetter(s[i + j - 1], marker[j])

\* the brand test C5 states
C5_Keeps(brand) ==
    /\ brand # <<>>
    /\ Len(brand) > 1
    /\ ~ContainsAnyCase(brand, NotProvidedMarker)
    /\ ~ContainsAnyCase(brand, IllegibleMarker)

\* the entries C5 says are returned: those that pass, in their order
RECURSIVE C5_Expected(_)
C5_Expected(entries) ==
    IF entries = <<>> THEN <<>>
    ELSE (IF C5_Keeps(sanitizeString(Prop(Head(entries), K_prescribed_brand)))
          THEN <<mapMedication(Head(entries))>> ELSE <<>>)
         \o C5_Expected(Tail(entries))

\* the medication entries of the recovered value
SourceMedications == medicationsOf(parsedOrEmpty(aParsed))

\* C5: the medications returned are exactly the input entries, in their
\* order, whose sanitized prescribed_brand is non-empty, longer than one
\* character and holds neither "not provided" nor "illegible" in any letter
\* case; entries failing this are dropped, none is replaced by a default:
\* "Not provided in image" is excluded and "Crocin" is retained.
C5_MedicationFilter ==
    aOutcome = "returned"
        => /\ aResult.medications = C5_Expected(SourceMedications)
           /\ \A i \in 1..Len(aResult.medications) :
                 aResult.medications[i].prescribed_brand # NotProvidedInImage
           /\ (\E i \in 1..Len(SourceMedications) :
                   SourceMedications[i] = Med(JStr(T_Crocin)))
                 => \E j \in 1..Len(aResult.medications) :
                        aResult.medications[j].prescribed_brand = T_Crocin

\* C5 witness: of two entries, "Not provided in image" first and "Crocin"
\* second, only the second is returned.
C5_Witness ==
    /\ aOutcome = "returned"
    /\ SourceMedications = <<Med(JStr(NotProvidedInImage)), Med(JStr(T_Crocin))>>
    /\ Len(aResult.medications) = 1
    /\ aResult.medications[1].prescribed_brand = T_Crocin

ParseErrors ==
    {"Failed to parse AI response as JSON", "No JSON structure found in text"}

\* the outcomes in which the call throws
Failures == ParseErrors \cup {"No response text from AI", "TypeError", "rejected"}

NoBraces(text) == \A i \in 1..Len(text) : text[i] \notin {"{", "}"}

\* the text holds a code-fence marker
HasFence(text) == \E i \in 1..Len(text) : MatchAt(text, Fence, i)

\* the span from the first "{" to the last "}" of the text, if there is one
C6_HasSpan(text) ==
    \E i, j \in 1..Len(text) : i < j /\ text[i] = "{" /\ text[j] = "}"
C6_Span(text) ==
    SubSeq(text,
           CHOOSE i \in 1..Len(text) :
               text[i] = "{" /\ \A k \in 1..(i - 1) : text[k] # "{",
           CHOOSE j \in 1..Len(text) :
               text[j] = "}" /\ \A k \in (j + 1)..Len(text) : text[k] # "}")

\* the stripped text is parsed first and its value used; only when that fails
\* is the span parsed; when that fails too, or there is no span, the call
\* throws a parse error and returns no result
C6_Procedure ==
    LET direct == JSONparse(Trim(RemoveAll(RemoveAll(aText, FenceJson), Fence)))
    IN  IF direct.ok
        THEN aParsed = direct.v /\ aOutcome \in {"returned", "TypeError"}
        ELSE IF C6_HasSpan(aText) /\ JSONparse(C6_Span(aText)).ok
        THEN /\ aParsed = JSONparse(C6_Span(aText)).v
             /\ aOutcome \in {"returned", "TypeError"}
        ELSE aOutcome \in ParseErrors /\ aResult = NoResult

\* fenced JSON, and a JSON object inside the brace-free noise of NoisePrefix
\* and NoiseSuffix, yield what the bare JSON yields
C6_SameAsBare ==
    (aSrc.kind \in {"fenced", "fencedPlain", "noise"} /\ aSrc.v.t = "object")
        => /\ aParsed = extractJson(Stringify(aSrc.v)).v
           /\ ~HasFence(Stringify(aSrc.v)) => aParsed = aSrc.v

\* fenced JSON yields what the bare JSON yields; so does a JSON object inside
\* the noise, provided no string of it holds a code-fence marker (the direct
\* parse of the bare JSON reads such a string with the marker stripped, the
\* span of the noisy text keeps it)
C6_SameAsBareUnfenced ==
    /\ (aSrc.kind \in {"fenced", "fencedPlain"} /\ aSrc.v.t = "object")
          => aParsed = extractJson(Stringify(aSrc.v)).v
    /\ (aSrc.kind \in {"fenced", "fencedPlain", "noise"} /\ aSrc.v.t = "object"
          /\ ~HasFence(Stringify(aSrc.v)))
          => aParsed = aSrc.v /\ aParsed = extractJson(Stringify(aSrc.v)).v

---------------------------------------------------------------------------
(* Claims about the store locator, checked under SpecLocator.              *)

\* the chunk holds a maps.uri the code takes up (a truthy one)
SuppliesUri(chunk) ==
    /\ ~IsNullish(chunk)
    /\ Truthy(Prop(chunk, K_maps))
    /\ Truthy(Prop(Prop(chunk, K_maps), K_uri))

\* the integer written at the head of s: its value and the rest of s
RECURSIVE ReadDigits(_, _)
ReadDigits(s, n) ==
    IF s # <<>> /\ IsDigit(Head(s)) THEN ReadDigits(Tail(s), 10 * n + DigitVal(Head(s)))
    ELSE [n |-> n, rest |-> s]
ReadInt(s) ==
    IF s # <<>> /\ Head(s) = "-"
    THEN [n |-> -(ReadDigits(Tail(s), 0).n), rest |-> ReadDigits(Tail(s), 0).rest]
    ELSE ReadDigits(s, 0)

\* uri is the search URL, and the numbers after its "@" are lat and lng
EmbedsPosition(uri, lat, lng) ==
    /\ StartsWith(uri, SearchUrlPrefix)
    /\ LET tail == SubSeq(uri, Len(SearchUrlPrefix) + 1, Len(uri))
       IN  /\ ReadInt(tail).n = lat
           /\ StartsWith(ReadInt(tail).rest, <<",">>)
           /\ ReadInt(Tail(ReadInt(tail).rest)).n = lng
           /\ ReadInt(Tail(ReadInt(tail).rest)).rest = SearchUrlSuffix

\* C7 (as claimed): every StoreLocation findNearestStore returns has a
\* non-empty mapUri, whatever JSON values the chunks hold in maps.uri; when no
\* chunk supplies a map URI it is the search URL that embeds the latitude and
\* longitude passed in.
C7_MapUriNonEmpty ==
    (store.set /\ lastAttempt.how = "ai")
        => /\ store.mapUri # <<>>
           /\ (\A i \in 1..Len(lastAttempt.resp.chunks) :
                   ~SuppliesUri(lastAttempt.resp.chunks[i]))
                 => EmbedsPosition(store.mapUri, lastAttempt.lat, lastAttempt.lng)

\* C8 (as claimed): when the AI call of the locator fails with a network
\* error, the user is shown the connection message, not the no-result one.
C8_ConnectionMessage ==
    (lastAttempt.how = "ai" /\ lastAttempt.rejected) => error = ConnectionMessage

\* at most one attempt is in flight, loading tells whether one is, and with
\* none in flight after the mount exactly one of store and error is set
C10_State ==
    /\ InFlight <= 1
    /\ loading = (InFlight = 1)
    /\ (mounted /\ InFlight = 0) => (store.set # (error # NullError))

\* once set, the store stays as it is and no attempt starts
C10_Step ==
    store.set => (store' = store /\ geoPending' = geoPending /\ aiPending' = aiPending)

\* C10: with attempts started only by the mount effect and the Try Again
\* button, at most one locate attempt is in flight at any time, loading is
\* true exactly while one is, and after every attempt completes loading is
\* false and exactly one of store and error is set; once store is set it is
\* never cleared and no further attempt starts.
C10_OneAttempt == [](C10_State) /\ [][C10_Step]_vars

\* C10 witness: an attempt completed with a store, after which nothing is in
\* flight, loading is false and no error is set.
C10_Witness ==
    /\ mounted
    /\ store.set
    /\ lastAttempt.how = "ai"
    /\ InFlight = 0
    /\ ~loading
    /\ error = NullError

====
